---- MODULE Spec2Model ----
(***************************************************************************)
(* Model of the options trading dashboard (src/app.py).                    *)
(*                                                                         *)
(* The dashboard is one Streamlit script: it loads the trade ledger once   *)
(* (load_data), reads the sidebar widgets, narrows the ledger to           *)
(* filtered_df, computes the headline metrics and then renders six tabs.   *)
(* Every widget interaction reruns the script from the top.  The model     *)
(* follows the script section by section; pc is the section the run has    *)
(* reached.                                                                *)
(*                                                                         *)
(* Numbers.  The dashboard works on floats; the model works on integers:   *)
(*   pnl              in cents (0.01 currency units)                       *)
(*   returnPct        in units of 0.00001 (so 0.12 is 12000)               *)
(*   timestamps       in half days (t \div 2 is the calendar day, t % 2    *)
(*                    the time of day)                                     *)
(* A float that is a quotient, NaN or infinity is a record built by        *)
(* Num, NaN, PosInf below.  A frame is a sequence of rows; boolean         *)
(* indexing frame[mask] is SelectSeq.                                      *)
(***************************************************************************)
EXTENDS Integers, Sequences, FiniteSets, TLC

VARIABLES
    df,                 \* the store: the frame returned by load_data()
    pc,                 \* section of the script the current run has reached
    selected_strategy, selected_status, selected_symbol, date_range,
    filtered_df,
    total_pnl, avg_pnl, median_pnl, win_rate, total_trades,
    gross_profit, gross_loss, profit_factor,
    pnl_per_trade, df_sorted, win_loss,
    strategy_stats,
    status_stats, status_strategy_groups, status_strategy,
    pivot_total, pivot_avg,
    best_trades, worst_trades, symbol_stats,
    total_delta, avg_delta, bias, neutral_pct, runtime_warnings,
    delta_strategy, delta_perf,
    search_term, sort_col, sort_order, display_df, csv_export

sidebar_vars == <<selected_strategy, selected_status, selected_symbol, date_range,
                  filtered_df>>
metric_vars  == <<total_pnl, avg_pnl, median_pnl, win_rate, total_trades,
                  gross_profit, gross_loss, profit_factor>>
tab1_vars    == <<pnl_per_trade, df_sorted, win_loss>>
tab2_vars    == <<strategy_stats>>
tab3_vars    == <<status_stats, status_strategy_groups, status_strategy,
                  pivot_total, pivot_avg>>
tab4_vars    == <<best_trades, worst_trades, symbol_stats>>
tab5_vars    == <<total_delta, avg_delta, bias, neutral_pct, runtime_warnings,
                  delta_strategy, delta_perf>>
tab6_vars    == <<search_term, sort_col, sort_order, display_df, csv_export>>
vars == <<df, pc, sidebar_vars, metric_vars, tab1_vars, tab2_vars, tab3_vars, tab4_vars,
          tab5_vars, tab6_vars>>

(***************************************************************************)
(* Bounds of the model.                                                    *)
(***************************************************************************)
\* longest ledger of the input families that vary the categorical, date,
\* delta and export fields
MaxLen == 2
\* longest ledger of the input family that varies pnl only
MaxRank == 4
\* the n of nlargest(n, 'pnl') / nsmallest(n, 'pnl'); the dashboard uses 10,
\* the model a smaller n so that ledgers longer than n stay small
TopN == 3
\* longest ledger of the ranking specification, whose ledgers hold
\* MaxLedger - 1 or MaxLedger records (2 * TopN and one more)
MaxLedger == 7

(***************************************************************************)
(* Floats that are not plain integers.                                     *)
(***************************************************************************)
Num(n, d) == [kind |-> "num", num |-> n, den |-> d]
NaN       == [kind |-> "nan", num |-> 0, den |-> 1]
PosInf    == [kind |-> "inf", num |-> 1, den |-> 0]
\* the text 'N/A' shown in place of a number
NotAvailable == [kind |-> "n/a", num |-> 0, den |-> 1]

Abs(x) == IF x < 0 THEN -x ELSE x

\* numpy's round to an integer number of units: x = n / d, d > 0, half to even
RoundDiv(n, d) ==
    LET q == n \div d          \* floor
        r == n % d             \* 0 <= r < d
    IN  IF 2 * r < d THEN q
        ELSE IF 2 * r > d THEN q + 1
        ELSE IF q % 2 = 0 THEN q ELSE q + 1

RECURSIVE SumSeq(_)
SumSeq(s) == IF s = <<>> THEN 0 ELSE Head(s) + SumSeq(Tail(s))

\* the values of one column, in row order
Col(frame, c) == [i \in 1..Len(frame) |-> frame[i][c]]

Min(a, b) == IF a <= b THEN a ELSE b

\* Stable ascending sort of the rows of a frame by an integer key per row
\* (keys[i] is the key of frame[i]); rows with equal keys keep their order.
SortRows(frame, keys) ==
    LET n == Len(frame)
        pos(i) == 1 + Cardinality({j \in 1..n :
                        \/ keys[j] < keys[i]
                        \/ (keys[j] = keys[i] /\ j < i)})
    IN  [k \in 1..n |-> frame[CHOOSE i \in 1..n : pos(i) = k]]

(***************************************************************************)
(* The input table.  A row of the CSV file carries the eleven stored       *)
(* columns; a date is text with a calendar day and an optional time part.  *)
(***************************************************************************)
DateText(d, t) == [ymd |-> d, hm |-> t]

DefaultRow ==
    [openDate |-> DateText(1, 0), closeDate |-> DateText(2, 0),
     type |-> "Iron Condor", symbol |-> "SPY", status |-> "closed",
     quantity |-> 1, pnl |-> 10000, returnPct |-> 0, daysInTrade |-> 1,
     estimated_delta |-> 0, delta_category |-> "Neutral"]

Types      == {"Iron Condor", "Short Put Spread"}
Statuses   == {"closed", "expired"}
Symbols    == {"QQQ", "SPY"}
Categories == {"Bearish", "Bullish", "Neutral"}

\* byte order of the strings the model uses (sorted(), groupby key order)
StrOrder == <<"Bearish", "Bullish", "Iron Condor", "Neutral", "QQQ", "SPY",
              "Short Put Spread", "closed", "expired">>
StrRank(s) == CHOOSE i \in 1..Len(StrOrder) : StrOrder[i] = s

\* rows that differ in the strategy and the symbol
CatRows ==
    {[DefaultRow EXCEPT !.type = t, !.symbol = y] : t \in Types, y \in Symbols}
\* rows that differ in the open date (one day at noon, the next at midnight)
\* and the status
DateRows ==
    {[DefaultRow EXCEPT !.openDate = d, !.status = s] :
        d \in {DateText(1, 1), DateText(2, 0)}, s \in Statuses}
\* rows that differ in strategy, status and pnl
GroupRows ==
    {[DefaultRow EXCEPT !.type = t, !.status = s, !.pnl = p] :
        t \in Types, s \in Statuses, p \in {-5000, 5000}}
\* category label of a delta estimate (the labels arrive with the input)
CategoryOf(e) == IF e > 0 THEN "Bullish" ELSE IF e < 0 THEN "Bearish" ELSE "Neutral"
\* rows that differ in the delta estimate and its category; the trades with a
\* negative estimate are the losing ones
DeltaRows ==
    {[DefaultRow EXCEPT !.estimated_delta = e, !.delta_category = CategoryOf(e),
                        !.pnl = IF e < 0 THEN -5000 ELSE 10000] :
        e \in {-60, -50, 0, 50, 60}}
\* rows that differ in the return and, together, in the close date, the
\* quantity, the days in trade, the symbol and pnl
ExportRows ==
    {[DefaultRow EXCEPT !.returnPct = r, !.closeDate = c[1], !.quantity = c[2],
                        !.daysInTrade = c[3], !.symbol = c[4], !.pnl = c[5]] :
        r \in {0, 12000, 12346},
        c \in {<<DateText(2, 0), 1, 1, "QQQ", -5000>>,
               <<DateText(3, 1), 2, 5, "SPY", 10000>>}}
\* rows that differ in pnl only
PnlRows ==
    {[DefaultRow EXCEPT !.pnl = p] : p \in {-5000, 0, 10000}}

SeqsUpTo(U, n) == UNION {[1..k -> U] : k \in 1..n}

\* The ledgers the model loads.  An empty ledger is left out: the title line
\* (app.py:63) formats df['openDate'].min(), which is NaT on an empty frame,
\* and the script stops there before any widget exists.
InputFiles ==
    SeqsUpTo(CatRows, MaxLen) \cup SeqsUpTo(DateRows, MaxLen)
      \cup SeqsUpTo(GroupRows, MaxLen) \cup SeqsUpTo(DeltaRows, MaxLen)
      \cup SeqsUpTo(ExportRows, MaxLen) \cup SeqsUpTo(PnlRows, MaxRank)

(***************************************************************************)
(* load_data                                                               *)
(***************************************************************************)
\* pd.to_datetime on the text of a date
ToDatetime(text) == text.ymd * 2 + text.hm
\* Timestamp.date(): the calendar day
DtDate(ts) == ts \div 2
\* Series.dt.strftime('%Y-%m-%d'): the text of the calendar day only
Strftime(ts) == DateText(ts \div 2, 0)

\* one row of the frame load_data returns; idx is the row's index label
LoadRow(row, i) ==
    [idx |-> i - 1,
     openDate |-> ToDatetime(row.openDate), closeDate |-> ToDatetime(row.closeDate),
     type |-> row.type, symbol |-> row.symbol, status |-> row.status,
     quantity |-> row.quantity, pnl |-> row.pnl, returnPct |-> row.returnPct,
     daysInTrade |-> row.daysInTrade, estimated_delta |-> row.estimated_delta,
     delta_category |-> row.delta_category,
     winning_trade |-> (row.pnl > 0)]

load_data(file) == [i \in 1..Len(file) |-> LoadRow(file[i], i)]

(***************************************************************************)
(* Sidebar widgets and the filter (app.py:65-100)                          *)
(***************************************************************************)
\* options of a selectbox: 'All' and the values present in the store
Options(c) == {"All"} \cup {df[i][c] : i \in 1..Len(df)}

\* what st.date_input can return: no, one or two calendar days between the
\* earliest and the latest open date of the store
Days == LET ds == {DtDate(df[i].openDate) : i \in 1..Len(df)}
        IN  {d \in 0..10 : (\E a \in ds : a <= d) /\ (\E b \in ds : d <= b)}
DateRanges == {<<>>} \cup {<<d>> : d \in Days} \cup (Days \X Days)

EqFilter(frame, c, selected) ==
    IF selected # "All" THEN SelectSeq(frame, LAMBDA r : r[c] = selected) ELSE frame

\* variant: the bounds compared with the timestamps, not with their days
DateFilterTimestamps(frame, range) ==
    IF Len(range) = 2
    THEN SelectSeq(frame, LAMBDA r : /\ r.openDate >= range[1] * 2
                                /\ r.openDate <= range[2] * 2)
    ELSE frame

\* variant: a reversed range put in order before it is applied
DateFilterSwapped(frame, range) ==
    IF Len(range) = 2
    THEN SelectSeq(frame, LAMBDA r :
            /\ DtDate(r.openDate) >= Min(range[1], range[2])
            /\ DtDate(r.openDate) <= range[1] + range[2] - Min(range[1], range[2]))
    ELSE frame

\* variant: a single date taken as the start of an open-ended range
DateFilterFromStart(frame, range) ==
    IF Len(range) = 2
    THEN SelectSeq(frame, LAMBDA r : /\ DtDate(r.openDate) >= range[1]
                                /\ DtDate(r.openDate) <= range[2])
    ELSE IF Len(range) = 1
    THEN SelectSeq(frame, LAMBDA r : DtDate(r.openDate) >= range[1])
    ELSE frame

DateFilter(frame, range) ==
    IF Len(range) = 2
    THEN SelectSeq(frame, LAMBDA r : /\ DtDate(r.openDate) >= range[1]
                                /\ DtDate(r.openDate) <= range[2])
    ELSE frame

ApplyFilters(store, strategy, status, symbol, range) ==
    DateFilter(EqFilter(EqFilter(EqFilter(store, "type", strategy),
                                 "status", status),
                        "symbol", symbol),
               range)

(***************************************************************************)
(* Headline metrics (app.py:102-111)                                       *)
(***************************************************************************)
\* Series.sum(): 0 on an empty series
Sum(frame, c) == SumSeq(Col(frame, c))

\* Series.mean(): NaN on an empty series
Mean(frame, c) ==
    IF Len(frame) = 0 THEN NaN ELSE Num(Sum(frame, c), Len(frame))

\* Series.median(): NaN on an empty series, the middle value or the mean of
\* the two middle values otherwise
Median(frame, c) ==
    LET n == Len(frame)
        s == SortRows(Col(frame, c), Col(frame, c))
    IN  IF n = 0 THEN NaN
        ELSE IF n % 2 = 1 THEN Num(s[(n + 1) \div 2], 1)
        ELSE Num(s[n \div 2] + s[n \div 2 + 1], 2)

\* variant: a trade that breaks even counted as a winner
WinnersNonNegative(frame) == SelectSeq(frame, LAMBDA r : r.pnl >= 0)

Winners(frame) == SelectSeq(frame, LAMBDA r : r.pnl > 0)
Losers(frame)  == SelectSeq(frame, LAMBDA r : r.pnl < 0)

\* variant: the division without its guard
WinRateUnguarded(frame) ==
    IF Len(frame) = 0 THEN NaN ELSE Num(Len(Winners(frame)) * 100, Len(frame))

WinRate(frame) ==
    IF Len(frame) > 0 THEN Num(Len(Winners(frame)) * 100, Len(frame)) ELSE Num(0, 1)

GrossProfit(frame) == Sum(Winners(frame), "pnl")
GrossLoss(frame)   == Abs(Sum(Losers(frame), "pnl"))

\* variant: zero instead of infinity when there is no loss
ProfitFactorZero(gp, gl) == IF gl > 0 THEN Num(gp, gl) ELSE Num(0, 1)

ProfitFactor(gp, gl) == IF gl > 0 THEN Num(gp, gl) ELSE PosInf

(***************************************************************************)
(* Tab 1: overview (app.py:123-277)                                        *)
(***************************************************************************)
\* app.py:132: the delta label of the Total P&L metric, total_pnl / total_trades
\* formatted with no decimals (whole currency units), or 'N/A'
PnlPerTrade(total, trades) ==
    IF trades > 0 THEN Num(RoundDiv(total, trades * 100), 1) ELSE NotAvailable

\* DataFrame.sort_values(col) on an integer column, ascending or descending;
\* rows with equal values keep their order
SortValues(frame, c, ascending) ==
    SortRows(frame, [i \in 1..Len(frame) |->
                        IF ascending THEN frame[i][c] ELSE -frame[i][c]])

\* Series.cumsum()
CumSum(frame, c) ==
    [i \in 1..Len(frame) |-> SumSeq(SubSeq(Col(frame, c), 1, i))]

\* app.py:180-181: df_sorted and its added cumulative_pnl column
CumulativePnl(frame) ==
    LET sorted == SortValues(frame, "closeDate", TRUE)
        cum    == CumSum(sorted, "pnl")
    IN  [i \in 1..Len(sorted) |->
            [row |-> sorted[i], cumulative_pnl |-> cum[i]]]

\* variant: the losses taken as pnl < 0, the break-even trades in neither row
WinLossStrict(frame) ==
    LET wins   == SelectSeq(frame, LAMBDA r : r.pnl > 0)
        losses == SelectSeq(frame, LAMBDA r : r.pnl < 0)
    IN  [Wins   |-> [Count |-> Len(wins),   Total_PnL |-> Sum(wins, "pnl")],
         Losses |-> [Count |-> Len(losses), Total_PnL |-> Sum(losses, "pnl")]]

\* app.py:244-254
WinLoss(frame) ==
    LET wins   == SelectSeq(frame, LAMBDA r : r.pnl > 0)
        losses == SelectSeq(frame, LAMBDA r : r.pnl <= 0)
    IN  [Wins   |-> [Count |-> Len(wins),   Total_PnL |-> Sum(wins, "pnl")],
         Losses |-> [Count |-> Len(losses), Total_PnL |-> Sum(losses, "pnl")]]

(***************************************************************************)
(* groupby / agg                                                           *)
(***************************************************************************)
\* the group key of a row: its values in the grouping columns
KeyOf(r, cols) == [c \in 1..Len(cols) |-> r[cols[c]]]

\* order of group keys: groupby sorts the keys, column by column
KeyRank(key) ==
    IF Len(key) = 1 THEN StrRank(key[1])
    ELSE StrRank(key[1]) * (Len(StrOrder) + 1) + StrRank(key[2])

SortedKeys(S) ==
    [k \in 1..Cardinality(S) |->
        CHOOSE x \in S : Cardinality({y \in S : KeyRank(y) < KeyRank(x)}) = k - 1]

\* variant: a row joins every group whose first key it has
GroupByFirstKey(frame, cols) ==
    LET keys == SortedKeys({KeyOf(frame[i], cols) : i \in 1..Len(frame)})
    IN  [g \in 1..Len(keys) |->
            [key  |-> keys[g],
             rows |-> SelectSeq(frame, LAMBDA r : r[cols[1]] = keys[g][1])]]

\* DataFrame.groupby(cols): one group per key present in the frame, in key
\* order, each holding the rows with that key in frame order
GroupBy(frame, cols) ==
    LET keys == SortedKeys({KeyOf(frame[i], cols) : i \in 1..Len(frame)})
    IN  [g \in 1..Len(keys) |->
            [key  |-> keys[g],
             rows |-> SelectSeq(frame, LAMBDA r : KeyOf(r, cols) = keys[g])]]

\* mean of a column of a non-empty group, rounded to a multiple of unit
\* (.round(2) in the column's unit)
RoundMean(rows, c, scale, unit) ==
    RoundDiv(Sum(rows, c) * scale, Len(rows) * unit) * unit

\* median of pnl of a non-empty group, .round(2): whole cents
RoundMedian(rows) ==
    LET m == Median(rows, "pnl") IN RoundDiv(m.num, m.den)

\* ('winning_trade', 'mean').round(2), then (* 100).round(1): percent
GroupWinRate(rows) == RoundDiv(Len(Winners(rows)) * 100, Len(rows))

(***************************************************************************)
(* Tab 2: strategy analysis (app.py:279-391)                               *)
(***************************************************************************)
\* app.py:284-292: one row per strategy, in key order
StrategyAgg(frame) ==
    LET gs == GroupBy(frame, <<"type">>)
    IN  [g \in 1..Len(gs) |->
            [type       |-> gs[g].key[1],
             Total_PnL  |-> Sum(gs[g].rows, "pnl"),
             Avg_PnL    |-> RoundMean(gs[g].rows, "pnl", 1, 1),
             Median_PnL |-> RoundMedian(gs[g].rows),
             Trades     |-> Len(gs[g].rows),
             Win_Rate   |-> GroupWinRate(gs[g].rows),
             Avg_Return |-> RoundMean(gs[g].rows, "returnPct", 1, 1000),
             Avg_Days   |-> RoundMean(gs[g].rows, "daysInTrade", 100, 1)]]

\* variant: ascending=True
SortByTotalAsc(stats) == SortValues(stats, "Total_PnL", TRUE)

\* sort_values('Total_PnL', ascending=False)
SortByTotalDesc(stats) == SortValues(stats, "Total_PnL", FALSE)

\* app.py:296-304: the profit factor of each strategy, appended as a column
WithProfitFactor(stats, frame) ==
    [g \in 1..Len(stats) |->
        LET strategy_trades == SelectSeq(frame, LAMBDA r : r.type = stats[g].type)
            gp == GrossProfit(strategy_trades)
            gl == GrossLoss(strategy_trades)
        IN  [type          |-> stats[g].type,
             Total_PnL     |-> stats[g].Total_PnL,
             Avg_PnL       |-> stats[g].Avg_PnL,
             Median_PnL    |-> stats[g].Median_PnL,
             Trades        |-> stats[g].Trades,
             Win_Rate      |-> stats[g].Win_Rate,
             Avg_Return    |-> stats[g].Avg_Return,
             Avg_Days      |-> stats[g].Avg_Days,
             Profit_Factor |-> ProfitFactor(gp, gl)]]

StrategyStats(frame) == WithProfitFactor(SortByTotalDesc(StrategyAgg(frame)), frame)

(***************************************************************************)
(* Tab 3: status analysis (app.py:393-526)                                 *)
(***************************************************************************)
\* variant: the column names given in the wrong order, the mean under
\* Total_PnL and the sum under Avg_PnL
PnlAggMislabelled(rows) ==
    [Total_PnL |-> RoundMean(rows, "pnl", 1, 1),
     Avg_PnL   |-> Sum(rows, "pnl"),
     Trades    |-> Len(rows),
     Win_Rate  |-> GroupWinRate(rows)]

\* the four aggregates shared by the status, symbol and delta tables
PnlAgg(rows) ==
    [Total_PnL |-> Sum(rows, "pnl"),
     Avg_PnL   |-> RoundMean(rows, "pnl", 1, 1),
     Trades    |-> Len(rows),
     Win_Rate  |-> GroupWinRate(rows)]

\* app.py:406-413: one row per status, in key order (the table is not sorted)
StatusStats(frame) ==
    LET gs == GroupBy(frame, <<"status">>)
    IN  [g \in 1..Len(gs) |->
            [status     |-> gs[g].key[1],
             Total_PnL  |-> Sum(gs[g].rows, "pnl"),
             Avg_PnL    |-> RoundMean(gs[g].rows, "pnl", 1, 1),
             Median_PnL |-> RoundMedian(gs[g].rows),
             Trades     |-> Len(gs[g].rows),
             Win_Rate   |-> GroupWinRate(gs[g].rows),
             Avg_Days   |-> RoundMean(gs[g].rows, "daysInTrade", 100, 1)]]

\* app.py:484: the groups of groupby(['type', 'status']), each with the index
\* labels of its rows
StatusStrategyGroups(frame) ==
    LET gs == GroupBy(frame, <<"type", "status">>)
    IN  [g \in 1..Len(gs) |->
            [key |-> gs[g].key, labels |-> Col(gs[g].rows, "idx")]]

\* app.py:484-491: one row per (type, status) present, after reset_index()
StatusStrategy(frame) ==
    LET gs == GroupBy(frame, <<"type", "status">>)
    IN  [g \in 1..Len(gs) |->
            [type      |-> gs[g].key[1],
             status    |-> gs[g].key[2],
             Total_PnL |-> PnlAgg(gs[g].rows).Total_PnL,
             Avg_PnL   |-> PnlAgg(gs[g].rows).Avg_PnL,
             Trades    |-> PnlAgg(gs[g].rows).Trades,
             Win_Rate  |-> PnlAgg(gs[g].rows).Win_Rate]]

\* the sorted distinct values of a column
SortedUnique(table, c) == SortedKeys({<<table[i][c]>> : i \in 1..Len(table)})

\* variant: pivot_table(..., fill_value=0)
PivotFillZero(table, index, columns, values) ==
    LET ix == SortedUnique(table, index)
        cs == SortedUnique(table, columns)
    IN  [index   |-> [i \in 1..Len(ix) |-> ix[i][1]],
         columns |-> [j \in 1..Len(cs) |-> cs[j][1]],
         cell    |-> [i \in 1..Len(ix) |-> [j \in 1..Len(cs) |->
                        LET hit == SelectSeq(table, LAMBDA r : /\ r[index] = ix[i][1]
                                                          /\ r[columns] = cs[j][1])
                        IN  IF hit = <<>> THEN Num(0, 1)
                            ELSE Num(hit[1][values], 1)]]]

\* DataFrame.pivot(index, columns, values): a dense index x columns table; a
\* combination with no row in the long table is NaN
Pivot(table, index, columns, values) ==
    LET ix == SortedUnique(table, index)
        cs == SortedUnique(table, columns)
    IN  [index   |-> [i \in 1..Len(ix) |-> ix[i][1]],
         columns |-> [j \in 1..Len(cs) |-> cs[j][1]],
         cell    |-> [i \in 1..Len(ix) |-> [j \in 1..Len(cs) |->
                        LET hit == SelectSeq(table, LAMBDA r : /\ r[index] = ix[i][1]
                                                          /\ r[columns] = cs[j][1])
                        IN  IF hit = <<>> THEN NaN ELSE Num(hit[1][values], 1)]]]

EmptyPivot == [index |-> <<>>, columns |-> <<>>, cell |-> <<>>]

(***************************************************************************)
(* Tab 4: best and worst trades (app.py:528-628)                           *)
(***************************************************************************)
Reverse(s) == [i \in 1..Len(s) |-> s[Len(s) + 1 - i]]

\* variant: keep='last'
NLargestKeepLast(frame, n, c) ==
    SubSeq(SortValues(Reverse(frame), c, FALSE), 1, Min(n, Len(frame)))

\* variant: the n smallest read off the wrong end of the ascending order
NSmallestFromTop(frame, n, c) ==
    SubSeq(SortValues(frame, c, FALSE), 1, Min(n, Len(frame)))

\* variant: a frame of at most n rows returned as it is
NSmallestShortcut(frame, n, c) ==
    IF Len(frame) <= n THEN frame
    ELSE SubSeq(SortValues(frame, c, TRUE), 1, n)

\* DataFrame.nlargest(n, c), keep='first': the rows ordered by descending c,
\* equal values in frame order, cut to the first n
NLargest(frame, n, c) ==
    SubSeq(SortValues(frame, c, FALSE), 1, Min(n, Len(frame)))

\* DataFrame.nsmallest(n, c), keep='first'
NSmallest(frame, n, c) ==
    SubSeq(SortValues(frame, c, TRUE), 1, Min(n, Len(frame)))

\* (returnPct * 100).round(2): a percentage with two decimals
PercentRound(r) == RoundDiv(r * 100, 1000) * 1000

\* app.py:536-540 and 554-558: the seven displayed columns, the open date as
\* text and the return as a percentage; idx is the row's index label
RankedView(rows) ==
    [i \in 1..Len(rows) |->
        [idx |-> rows[i].idx,
         openDate |-> Strftime(rows[i].openDate),
         type |-> rows[i].type, symbol |-> rows[i].symbol,
         status |-> rows[i].status, pnl |-> rows[i].pnl,
         returnPct |-> PercentRound(rows[i].returnPct),
         daysInTrade |-> rows[i].daysInTrade]]

\* app.py:596-603
SymbolStats(frame) ==
    LET gs == GroupBy(frame, <<"symbol">>)
    IN  SortByTotalDesc([g \in 1..Len(gs) |->
            [symbol    |-> gs[g].key[1],
             Total_PnL |-> PnlAgg(gs[g].rows).Total_PnL,
             Avg_PnL   |-> PnlAgg(gs[g].rows).Avg_PnL,
             Trades    |-> PnlAgg(gs[g].rows).Trades,
             Win_Rate  |-> PnlAgg(gs[g].rows).Win_Rate]])

(***************************************************************************)
(* Tab 5: delta analysis (app.py:630-733)                                  *)
(***************************************************************************)
BiasThreshold == 50

\* variant: the thresholds themselves count as a bias
BiasInclusive(total) ==
    IF total >= BiasThreshold THEN "Bullish"
    ELSE IF total <= -BiasThreshold THEN "Bearish"
    ELSE "Neutral"

\* app.py:654
Bias(total) ==
    IF total > BiasThreshold THEN "Bullish"
    ELSE IF total < -BiasThreshold THEN "Bearish"
    ELSE "Neutral"

\* the warning numpy emits when a scalar division has no defined result
InvalidDivide == "RuntimeWarning: invalid value encountered in scalar divide"

\* app.py:658: the division is made whatever len() is; numpy answers 0 / 0
\* with NaN and the warning above
NeutralPctWarnings(frame) == IF Len(frame) = 0 THEN {InvalidDivide} ELSE {}

\* app.py:658: a numpy integer divided by len(); 0 / 0 is NaN there
NeutralPct(frame) ==
    IF Len(frame) = 0 THEN NaN
    ELSE Num(Len(SelectSeq(frame, LAMBDA r : r.delta_category = "Neutral")) * 100,
             Len(frame))

\* app.py:664-671
DeltaStrategy(frame) ==
    LET gs == GroupBy(frame, <<"type">>)
    IN  SortByTotalDesc([g \in 1..Len(gs) |->
            [type        |-> gs[g].key[1],
             Avg_Delta   |-> RoundMean(gs[g].rows, "estimated_delta", 100, 1),
             Total_Delta |-> Sum(gs[g].rows, "estimated_delta"),
             Total_PnL   |-> Sum(gs[g].rows, "pnl"),
             Trades      |-> Len(gs[g].rows)]])

\* app.py:717-723: one row per delta category, in key order (not sorted)
DeltaPerf(frame) ==
    LET gs == GroupBy(frame, <<"delta_category">>)
    IN  [g \in 1..Len(gs) |->
            [delta_category |-> gs[g].key[1],
             Total_PnL |-> PnlAgg(gs[g].rows).Total_PnL,
             Avg_PnL   |-> PnlAgg(gs[g].rows).Avg_PnL,
             Trades    |-> PnlAgg(gs[g].rows).Trades,
             Win_Rate  |-> PnlAgg(gs[g].rows).Win_Rate]]

(***************************************************************************)
(* Tab 6: trade log and export (app.py:735-784)                            *)
(***************************************************************************)
\* variant: the text of the close date taken from the open date
DisplayRowCopiedDate(r) ==
    [idx |-> r.idx,
     openDate |-> Strftime(r.openDate), closeDate |-> Strftime(r.openDate),
     type |-> r.type, symbol |-> r.symbol, status |-> r.status,
     quantity |-> r.quantity, pnl |-> r.pnl,
     returnPct |-> PercentRound(r.returnPct),
     daysInTrade |-> r.daysInTrade, estimated_delta |-> r.estimated_delta,
     delta_category |-> r.delta_category]

\* app.py:743-751: the eleven stored columns, both dates as text and the
\* return as a percentage
DisplayRow(r) ==
    [idx |-> r.idx,
     openDate |-> Strftime(r.openDate), closeDate |-> Strftime(r.closeDate),
     type |-> r.type, symbol |-> r.symbol, status |-> r.status,
     quantity |-> r.quantity, pnl |-> r.pnl,
     returnPct |-> PercentRound(r.returnPct),
     daysInTrade |-> r.daysInTrade, estimated_delta |-> r.estimated_delta,
     delta_category |-> r.delta_category]

\* the search terms the model types: none, or a word in lower case
SearchTerms == {"", "spy"}

\* str.contains(term, case=False) on the text of a cell; the terms of the
\* model are letters only, so only the text columns can contain them
StrContains(text, term) == <<text, term>> \in {<<"SPY", "spy">>}

\* app.py:754-756
Search(table, term) ==
    IF term # ""
    THEN SelectSeq(table, LAMBDA r :
            \E c \in {"type", "symbol", "status", "delta_category"} :
                StrContains(r[c], term))
    ELSE table

\* the columns the model sorts the log by
SortCols == {"openDate", "pnl"}

\* app.py:762: sort_values(sort_col, ascending); a date column holds text of
\* the form YYYY-MM-DD, whose order is the order of the days
SortLog(table, c, ascending) ==
    LET key(i) == IF c = "openDate" THEN table[i].openDate.ymd ELSE table[i][c]
    IN  SortRows(table, [i \in 1..Len(table) |->
                            IF ascending THEN key(i) ELSE -key(i)])

DisplayDf(frame, term, c, order) ==
    SortLog(Search([i \in 1..Len(frame) |-> DisplayRow(frame[i])], term),
            c, order = "Ascending")

\* DataFrame.to_csv(index=False): the rows without their index labels
ToCsv(table) ==
    [i \in 1..Len(table) |->
        [openDate |-> table[i].openDate, closeDate |-> table[i].closeDate,
         type |-> table[i].type, symbol |-> table[i].symbol,
         status |-> table[i].status, quantity |-> table[i].quantity,
         pnl |-> table[i].pnl, returnPct |-> table[i].returnPct,
         daysInTrade |-> table[i].daysInTrade,
         estimated_delta |-> table[i].estimated_delta,
         delta_category |-> table[i].delta_category]]

(***************************************************************************)
(* State machine                                                           *)
(***************************************************************************)
None == "not rendered"

\* the state of a run that has not passed the sidebar yet
Fresh ==
    /\ pc = "sidebar"
    /\ selected_strategy = "All" /\ selected_status = "All"
    /\ selected_symbol = "All" /\ date_range = <<>>
    /\ filtered_df = <<>>
    /\ total_pnl = 0 /\ avg_pnl = NaN /\ median_pnl = NaN /\ win_rate = NaN
    /\ total_trades = 0 /\ gross_profit = 0 /\ gross_loss = 0
    /\ profit_factor = NaN
    /\ pnl_per_trade = NaN /\ df_sorted = <<>> /\ win_loss = None
    /\ strategy_stats = <<>>
    /\ status_stats = <<>> /\ status_strategy_groups = <<>>
    /\ status_strategy = <<>> /\ pivot_total = EmptyPivot /\ pivot_avg = EmptyPivot
    /\ best_trades = <<>> /\ worst_trades = <<>> /\ symbol_stats = <<>>
    /\ total_delta = 0 /\ avg_delta = NaN /\ bias = None /\ neutral_pct = NaN
    /\ runtime_warnings = {}
    /\ delta_strategy = <<>> /\ delta_perf = <<>>
    /\ search_term = "" /\ sort_col = "openDate" /\ sort_order = "Descending"
    /\ display_df = <<>> /\ csv_export = <<>>

Init ==
    /\ \E file \in InputFiles : df = load_data(file)
    /\ Fresh

\* app.py:65-100: the sidebar widgets are read and the filter applied
Sidebar ==
    /\ pc = "sidebar"
    /\ \E strategy \in Options("type"), status \in Options("status"),
          symbol \in Options("symbol"), range \in DateRanges :
         /\ selected_strategy' = strategy
         /\ selected_status' = status
         /\ selected_symbol' = symbol
         /\ date_range' = range
         /\ filtered_df' = ApplyFilters(df, strategy, status, symbol, range)
    /\ pc' = "metrics"
    /\ UNCHANGED <<df, metric_vars, tab1_vars, tab2_vars, tab3_vars, tab4_vars,
                   tab5_vars, tab6_vars>>

\* variant: the total taken over the store, not over the filtered subset
MetricsTotalOfStore ==
    /\ pc = "metrics"
    /\ total_pnl' = Sum(df, "pnl")
    /\ avg_pnl' = Mean(filtered_df, "pnl")
    /\ median_pnl' = Median(filtered_df, "pnl")
    /\ win_rate' = WinRate(filtered_df)
    /\ total_trades' = Len(filtered_df)
    /\ gross_profit' = GrossProfit(filtered_df)
    /\ gross_loss' = GrossLoss(filtered_df)
    /\ profit_factor' = ProfitFactor(GrossProfit(filtered_df), GrossLoss(filtered_df))
    /\ pc' = "tab1"
    /\ UNCHANGED <<df, sidebar_vars, tab1_vars, tab2_vars, tab3_vars, tab4_vars,
                   tab5_vars, tab6_vars>>

\* app.py:102-111
Metrics ==
    /\ pc = "metrics"
    /\ total_pnl' = Sum(filtered_df, "pnl")
    /\ avg_pnl' = Mean(filtered_df, "pnl")
    /\ median_pnl' = Median(filtered_df, "pnl")
    /\ win_rate' = WinRate(filtered_df)
    /\ total_trades' = Len(filtered_df)
    /\ gross_profit' = GrossProfit(filtered_df)
    /\ gross_loss' = GrossLoss(filtered_df)
    /\ profit_factor' = ProfitFactor(GrossProfit(filtered_df), GrossLoss(filtered_df))
    /\ pc' = "tab1"
    /\ UNCHANGED <<df, sidebar_vars, tab1_vars, tab2_vars, tab3_vars, tab4_vars,
                   tab5_vars, tab6_vars>>

\* variant: sort_values('closeDate', inplace=True) applied to the store itself
Tab1SortsStore ==
    /\ pc = "tab1"
    /\ df' = SortValues(df, "closeDate", TRUE)
    /\ pnl_per_trade' = PnlPerTrade(total_pnl, total_trades)
    /\ df_sorted' = CumulativePnl(filtered_df)
    /\ win_loss' = WinLoss(filtered_df)
    /\ pc' = "tab2"
    /\ UNCHANGED <<sidebar_vars, metric_vars, tab2_vars, tab3_vars, tab4_vars,
                   tab5_vars, tab6_vars>>

\* app.py:123-277
Tab1 ==
    /\ pc = "tab1"
    /\ pnl_per_trade' = PnlPerTrade(total_pnl, total_trades)
    /\ df_sorted' = CumulativePnl(filtered_df)
    /\ win_loss' = WinLoss(filtered_df)
    /\ pc' = "tab2"
    /\ UNCHANGED <<df, sidebar_vars, metric_vars, tab2_vars, tab3_vars, tab4_vars,
                   tab5_vars, tab6_vars>>

\* app.py:279-391
Tab2 ==
    /\ pc = "tab2"
    /\ strategy_stats' = StrategyStats(filtered_df)
    /\ pc' = "tab3"
    /\ UNCHANGED <<df, sidebar_vars, metric_vars, tab1_vars, tab3_vars, tab4_vars,
                   tab5_vars, tab6_vars>>

\* app.py:393-526
Tab3 ==
    /\ pc = "tab3"
    /\ status_stats' = StatusStats(filtered_df)
    /\ status_strategy_groups' = StatusStrategyGroups(filtered_df)
    /\ status_strategy' = StatusStrategy(filtered_df)
    /\ pivot_total' = Pivot(StatusStrategy(filtered_df), "type", "status", "Total_PnL")
    /\ pivot_avg' = Pivot(StatusStrategy(filtered_df), "type", "status", "Avg_PnL")
    /\ pc' = "tab4"
    /\ UNCHANGED <<df, sidebar_vars, metric_vars, tab1_vars, tab2_vars, tab4_vars,
                   tab5_vars, tab6_vars>>

\* app.py:528-628
Tab4 ==
    /\ pc = "tab4"
    /\ best_trades' = RankedView(NLargest(filtered_df, TopN, "pnl"))
    /\ worst_trades' = RankedView(NSmallest(filtered_df, TopN, "pnl"))
    /\ symbol_stats' = SymbolStats(filtered_df)
    /\ pc' = "tab5"
    /\ UNCHANGED <<df, sidebar_vars, metric_vars, tab1_vars, tab2_vars, tab3_vars,
                   tab5_vars, tab6_vars>>

\* app.py:630-733
Tab5 ==
    /\ pc = "tab5"
    /\ total_delta' = Sum(filtered_df, "estimated_delta")
    /\ avg_delta' = Mean(filtered_df, "estimated_delta")
    /\ bias' = Bias(Sum(filtered_df, "estimated_delta"))
    /\ neutral_pct' = NeutralPct(filtered_df)
    /\ runtime_warnings' = NeutralPctWarnings(filtered_df)
    /\ delta_strategy' = DeltaStrategy(filtered_df)
    /\ delta_perf' = DeltaPerf(filtered_df)
    /\ pc' = "tab6"
    /\ UNCHANGED <<df, sidebar_vars, metric_vars, tab1_vars, tab2_vars, tab3_vars,
                   tab4_vars, tab6_vars>>

\* app.py:735-784: the search box, the sort widgets, the log and its export
Tab6 ==
    /\ pc = "tab6"
    /\ \E term \in SearchTerms, c \in SortCols, order \in {"Descending", "Ascending"} :
         /\ search_term' = term
         /\ sort_col' = c
         /\ sort_order' = order
         /\ display_df' = DisplayDf(filtered_df, term, c, order)
         /\ csv_export' = ToCsv(DisplayDf(filtered_df, term, c, order))
    /\ pc' = "done"
    /\ UNCHANGED <<df, sidebar_vars, metric_vars, tab1_vars, tab2_vars, tab3_vars,
                   tab4_vars, tab5_vars>>

\* a widget interaction: Streamlit runs the script again from the top; the
\* store comes from the st.cache_data cache, everything else is recomputed
Rerun ==
    /\ pc = "done"
    /\ pc' = "sidebar"
    /\ selected_strategy' = "All" /\ selected_status' = "All"
    /\ selected_symbol' = "All" /\ date_range' = <<>>
    /\ filtered_df' = <<>>
    /\ total_pnl' = 0 /\ avg_pnl' = NaN /\ median_pnl' = NaN /\ win_rate' = NaN
    /\ total_trades' = 0 /\ gross_profit' = 0 /\ gross_loss' = 0
    /\ profit_factor' = NaN
    /\ pnl_per_trade' = NaN /\ df_sorted' = <<>> /\ win_loss' = None
    /\ strategy_stats' = <<>>
    /\ status_stats' = <<>> /\ status_strategy_groups' = <<>>
    /\ status_strategy' = <<>> /\ pivot_total' = EmptyPivot /\ pivot_avg' = EmptyPivot
    /\ best_trades' = <<>> /\ worst_trades' = <<>> /\ symbol_stats' = <<>>
    /\ total_delta' = 0 /\ avg_delta' = NaN /\ bias' = None /\ neutral_pct' = NaN
    /\ runtime_warnings' = {}
    /\ delta_strategy' = <<>> /\ delta_perf' = <<>>
    /\ search_term' = "" /\ sort_col' = "openDate" /\ sort_order' = "Descending"
    /\ display_df' = <<>> /\ csv_export' = <<>>
    /\ UNCHANGED df

Next == Sidebar \/ Metrics \/ Tab1 \/ Tab2 \/ Tab3 \/ Tab4 \/ Tab5 \/ Tab6 \/ Rerun

Spec == Init /\ [][Next]_vars

\* The ranking specification: the same script over ledgers long enough for
\* the best and the worst selection to be cut from different records.  The
\* records differ in pnl only and are stored in the order of their pnl,
\* rising or falling.
Monotone(file) ==
    \/ \A i \in 1..(Len(file) - 1) : file[i].pnl <= file[i + 1].pnl
    \/ \A i \in 1..(Len(file) - 1) : file[i].pnl >= file[i + 1].pnl

RankingFiles ==
    {file \in UNION {[1..k -> PnlRows] : k \in (MaxLedger - 1)..MaxLedger} :
        Monotone(file)}

InitRanking ==
    /\ \E file \in RankingFiles : df = load_data(file)
    /\ Fresh

SpecRanking == InitRanking /\ [][Next]_vars

(***************************************************************************)
(* Properties                                                              *)
(***************************************************************************)
\* the sections a run has completed
FilterDone  == pc # "sidebar"
MetricsDone == pc \notin {"sidebar", "metrics"}
Tab1Done    == pc \in {"tab2", "tab3", "tab4", "tab5", "tab6", "done"}
Tab2Done    == pc \in {"tab3", "tab4", "tab5", "tab6", "done"}
Tab3Done    == pc \in {"tab4", "tab5", "tab6", "done"}
Tab4Done    == pc \in {"tab5", "tab6", "done"}
Tab5Done    == pc \in {"tab6", "done"}
Tab6Done    == pc = "done"

\* the sum of f[i] over the positions i in S
RECURSIVE TotalOver(_, _)
TotalOver(f, S) ==
    IF S = {} THEN 0
    ELSE LET i == CHOOSE j \in S : TRUE IN f[i] + TotalOver(f, S \ {i})

Positions(frame) == 1..Len(frame)
Labels(frame) == {frame[i].idx : i \in 1..Len(frame)}
\* the row of the store with index label l
StoreRow(l) == df[l + 1]

\* a store record satisfies every supplied constraint
Satisfies(r) ==
    /\ selected_strategy # "All" => r.type = selected_strategy
    /\ selected_status # "All" => r.status = selected_status
    /\ selected_symbol # "All" => r.symbol = selected_symbol
    /\ Len(date_range) = 2 =>
         /\ date_range[1] <= r.openDate \div 2
         /\ r.openDate \div 2 <= date_range[2]

\* C1: the filtered subset holds exactly the store records that satisfy all
\* supplied constraints, each once, in store order.
FilterSoundness ==
    FilterDone =>
        /\ \A k \in Positions(filtered_df) :
             /\ filtered_df[k].idx \in 0..(Len(df) - 1)
             /\ filtered_df[k] = StoreRow(filtered_df[k].idx)
             /\ Satisfies(filtered_df[k])
        /\ \A i \in Positions(df) :
             Satisfies(df[i]) =>
                Cardinality({k \in Positions(filtered_df) : filtered_df[k] = df[i]}) = 1
        /\ \A k, l \in Positions(filtered_df) :
             k < l => filtered_df[k].idx < filtered_df[l].idx

\* a filter with a categorical and a date constraint that keeps some records
\* and drops others, one of them for its time of day alone
FilterWitness ==
    /\ pc = "metrics"
    /\ selected_status # "All"
    /\ Len(date_range) = 2
    /\ Len(filtered_df) = 1 /\ Len(df) = 2
    /\ filtered_df[1].openDate % 2 = 1
    /\ filtered_df[1].idx = 1

\* C2 (as stated): on an empty subset totalTrades and totalPnl are 0 and
\* avgPnl, medianPnl, winRate and profitFactor are all "no data".
EmptySummaryAllNoData ==
    (MetricsDone /\ Len(filtered_df) = 0) =>
        /\ total_trades = 0 /\ total_pnl = 0
        /\ avg_pnl.kind = "nan" /\ median_pnl.kind = "nan"
        /\ win_rate.kind = "nan" /\ profit_factor.kind = "nan"

\* C2 (amended): on an empty subset totalTrades and totalPnl are 0, avgPnl and
\* medianPnl are "no data" (NaN), winRate is the number 0 and profitFactor is
\* positive infinity.
EmptySummary ==
    (MetricsDone /\ Len(filtered_df) = 0) =>
        /\ total_trades = 0 /\ total_pnl = 0
        /\ avg_pnl.kind = "nan" /\ median_pnl.kind = "nan"
        /\ win_rate.kind = "num" /\ win_rate.num = 0 /\ win_rate.den # 0
        /\ profit_factor.kind = "inf"

\* the metrics of a subset the filter left empty
EmptySummaryWitness ==
    /\ pc = "tab1"
    /\ Len(filtered_df) = 0
    /\ selected_strategy # "All" /\ selected_status # "All"

\* gross profit and gross loss of the rows at the positions S of a frame
ProfitOf(frame, S) ==
    TotalOver(Col(frame, "pnl"), {i \in S : frame[i].pnl > 0})
LossOf(frame, S) ==
    Abs(TotalOver(Col(frame, "pnl"), {i \in S : frame[i].pnl < 0}))
\* pf is gp / gl when gl > 0 and positive infinity when gl = 0
IsProfitFactor(pf, gp, gl) ==
    IF gl > 0
    THEN pf.kind = "num" /\ pf.den # 0 /\ pf.num * gl = gp * pf.den
    ELSE pf.kind = "inf"

\* C3: on a non-empty subset profitFactor is grossProfit / grossLoss when
\* grossLoss > 0 and positive infinity when grossLoss = 0; each strategy
\* group's profit factor follows the same rule.
ProfitFactorRule ==
    /\ (MetricsDone /\ Len(filtered_df) > 0) =>
          /\ gross_profit = ProfitOf(filtered_df, Positions(filtered_df))
          /\ gross_loss = LossOf(filtered_df, Positions(filtered_df))
          /\ IsProfitFactor(profit_factor, gross_profit, gross_loss)
    /\ Tab2Done =>
          \A g \in Positions(strategy_stats) :
             LET members == {i \in Positions(filtered_df) :
                                filtered_df[i].type = strategy_stats[g].type}
             IN  IsProfitFactor(strategy_stats[g].Profit_Factor,
                                ProfitOf(filtered_df, members),
                                LossOf(filtered_df, members))

\* a subset with a finite profit factor whose two strategies have one an
\* infinite and one a finite profit factor
ProfitFactorWitness ==
    /\ pc = "tab3"
    /\ profit_factor.kind = "num" /\ gross_loss > 0 /\ gross_profit > 0
    /\ Len(strategy_stats) = 2
    /\ strategy_stats[1].Profit_Factor.kind = "inf"
    /\ strategy_stats[2].Profit_Factor.kind = "num"

\* a non-empty subset without profit and without loss: infinity as well
ProfitFactorZeroOverZero ==
    /\ pc = "tab1"
    /\ Len(filtered_df) > 0 /\ gross_profit = 0 /\ gross_loss = 0
    /\ profit_factor.kind = "inf"

\* ranked is a selection of rows of the subset, each at most once
SelectedFrom(ranked, frame) ==
    /\ \A k \in Positions(ranked) :
          \E i \in Positions(frame) :
             frame[i].idx = ranked[k].idx /\ frame[i].pnl = ranked[k].pnl
    /\ \A k, l \in Positions(ranked) : k # l => ranked[k].idx # ranked[l].idx

\* row a comes before row b: larger (best) or smaller (worst) pnl first,
\* equal pnl in store order
Before(a, b, best) ==
    \/ (IF best THEN a.pnl > b.pnl ELSE a.pnl < b.pnl)
    \/ (a.pnl = b.pnl /\ a.idx < b.idx)

\* ranked is the first n rows of the subset in the order Before
IsTop(ranked, frame, n, best) ==
    /\ Len(ranked) = Min(n, Len(frame))
    /\ SelectedFrom(ranked, frame)
    /\ \A k, l \in Positions(ranked) : k < l => Before(ranked[k], ranked[l], best)
    /\ \A i \in Positions(frame) :
          frame[i].idx \notin Labels(ranked) =>
             \A k \in Positions(ranked) : Before(ranked[k], frame[i], best)

\* C4: the best (worst) trades are the at most n records with the largest
\* (smallest) pnl, in descending (ascending) pnl order; among equal pnl the
\* record earlier in the store is selected first and listed first.
TopByPnl ==
    Tab4Done =>
        /\ IsTop(best_trades, filtered_df, TopN, TRUE)
        /\ IsTop(worst_trades, filtered_df, TopN, FALSE)

\* a subset longer than n, not in descending order itself, where a record
\* left out of the best trades has the pnl of the last two selected
TopByPnlWitness ==
    /\ pc = "tab5"
    /\ Len(filtered_df) > TopN
    /\ Len(best_trades) = TopN
    /\ \E i \in Positions(filtered_df) :
          /\ filtered_df[i].idx \notin Labels(best_trades)
          /\ filtered_df[i].pnl = best_trades[TopN].pnl
    /\ best_trades[TopN - 1].pnl = best_trades[TopN].pnl
    /\ filtered_df[1].pnl < best_trades[1].pnl

\* C5: a subset with fewer than n records is returned whole, ordered by pnl in
\* the requested direction.
TopOfFew ==
    (Tab4Done /\ Len(filtered_df) < TopN) =>
        /\ Len(best_trades) = Len(filtered_df)
        /\ Len(worst_trades) = Len(filtered_df)
        /\ Labels(best_trades) = Labels(filtered_df)
        /\ Labels(worst_trades) = Labels(filtered_df)
        /\ \A k, l \in Positions(best_trades) :
              k < l => best_trades[k].pnl >= best_trades[l].pnl
        /\ \A k, l \in Positions(worst_trades) :
              k < l => worst_trades[k].pnl <= worst_trades[l].pnl

\* a subset of fewer than n records that is in neither order itself
TopOfFewWitness ==
    /\ pc = "tab5"
    /\ Len(filtered_df) = 2 /\ Len(filtered_df) < TopN
    /\ filtered_df[1].pnl > filtered_df[2].pnl
    /\ worst_trades[1].idx = filtered_df[2].idx
    /\ best_trades[1].idx = filtered_df[1].idx

Range(seq) == {seq[k] : k \in 1..Len(seq)}

\* C6: the (strategy type, status) groups partition the subset: every record
\* lies in exactly one group, every group member is a record of the subset
\* with the group's key, and the groups together are the subset.
GroupPartition ==
    Tab3Done =>
        LET G == status_strategy_groups IN
        /\ \A i \in Positions(filtered_df) :
              Cardinality({g \in Positions(G) :
                              filtered_df[i].idx \in Range(G[g].labels)}) = 1
        /\ \A g \in Positions(G) :
              /\ Range(G[g].labels) \subseteq Labels(filtered_df)
              /\ Cardinality(Range(G[g].labels)) = Len(G[g].labels)
              /\ \A l \in Range(G[g].labels) :
                    /\ StoreRow(l).type = G[g].key[1]
                    /\ StoreRow(l).status = G[g].key[2]
        /\ UNION {Range(G[g].labels) : g \in Positions(G)} = Labels(filtered_df)
        /\ Len(status_strategy) = Len(G)
        /\ \A g \in Positions(G) :
              /\ status_strategy[g].type = G[g].key[1]
              /\ status_strategy[g].status = G[g].key[2]
              /\ status_strategy[g].Trades = Len(G[g].labels)

\* two records that share the strategy and differ in the status
GroupPartitionWitness ==
    /\ pc = "tab4"
    /\ Len(filtered_df) = 2
    /\ filtered_df[1].type = filtered_df[2].type
    /\ filtered_df[1].status # filtered_df[2].status
    /\ Len(status_strategy_groups) = 2

\* the (type, status) combinations that occur in the subset
Present == {<<filtered_df[i].type, filtered_df[i].status>> : i \in Positions(filtered_df)}
MembersOf(t, s) ==
    {i \in Positions(filtered_df) : filtered_df[i].type = t /\ filtered_df[i].status = s}

\* the table is the dense type x status table of the subset: a number where
\* the combination occurs, "no data" where it does not
IsDense(pivot) ==
    /\ Range(pivot.index) = {c[1] : c \in Present}
    /\ Range(pivot.columns) = {c[2] : c \in Present}
    /\ Len(pivot.index) = Cardinality(Range(pivot.index))
    /\ Len(pivot.columns) = Cardinality(Range(pivot.columns))
    /\ \A i \in Positions(pivot.index), j \in Positions(pivot.columns) :
          IF <<pivot.index[i], pivot.columns[j]>> \in Present
          THEN pivot.cell[i][j].kind = "num"
          ELSE pivot.cell[i][j].kind = "nan"

\* C7: there is a group for exactly the key combinations that occur in the
\* subset, each with at least one trade, and in the dense strategy x status
\* tables every combination that does not occur is "no data", not zero.
GroupsAndPivot ==
    Tab3Done =>
        /\ {<<status_strategy[g].type, status_strategy[g].status>> :
                g \in Positions(status_strategy)} = Present
        /\ Len(status_strategy) = Cardinality(Present)
        /\ \A g \in Positions(status_strategy) : status_strategy[g].Trades >= 1
        /\ IsDense(pivot_total)
        /\ IsDense(pivot_avg)
        /\ \A i \in Positions(pivot_total.index), j \in Positions(pivot_total.columns) :
              <<pivot_total.index[i], pivot_total.columns[j]>> \in Present =>
                 pivot_total.cell[i][j].num =
                    TotalOver(Col(filtered_df, "pnl"),
                              MembersOf(pivot_total.index[i], pivot_total.columns[j]))

\* a 2 x 2 table with two combinations that do not occur
GroupsAndPivotWitness ==
    /\ pc = "tab4"
    /\ Len(status_strategy) = 2
    /\ Len(pivot_total.index) = 2 /\ Len(pivot_total.columns) = 2
    /\ pivot_total.cell[1][2].kind = "nan" /\ pivot_avg.cell[2][1].kind = "nan"

\* a combination that occurs with a total of zero is the number 0
ZeroCellReached ==
    /\ pc = "tab4"
    /\ Len(pivot_total.index) = 1 /\ Len(pivot_total.columns) = 1
    /\ pivot_total.cell[1][1] = Num(0, 1)

DescendingTotals(table) ==
    \A g \in 1..(Len(table) - 1) : table[g].Total_PnL >= table[g + 1].Total_PnL
AscendingKeys(table, c) ==
    \A g \in 1..(Len(table) - 1) : StrRank(table[g][c]) < StrRank(table[g + 1][c])

\* C8 (as stated): the results by strategy type, by status, by symbol and by
\* delta category are each in descending order of totalPnl.
AllGroupedDescending ==
    Tab5Done =>
        /\ DescendingTotals(strategy_stats)
        /\ DescendingTotals(status_stats)
        /\ DescendingTotals(symbol_stats)
        /\ DescendingTotals(delta_strategy)
        /\ DescendingTotals(delta_perf)

\* C8 (amended): the results by strategy type and by symbol are in descending
\* order of totalPnl; the results by status and by delta category are in
\* ascending order of the key.
GroupedOrder ==
    Tab5Done =>
        /\ DescendingTotals(strategy_stats)
        /\ DescendingTotals(symbol_stats)
        /\ DescendingTotals(delta_strategy)
        /\ AscendingKeys(status_stats, "status")
        /\ AscendingKeys(delta_perf, "delta_category")

\* two strategies whose key order is not their order of totals, and two
\* statuses listed with the smaller total first
GroupedOrderWitness ==
    /\ pc = "tab6"
    /\ Len(strategy_stats) = 2
    /\ strategy_stats[1].type = "Short Put Spread"
    /\ strategy_stats[1].Total_PnL > strategy_stats[2].Total_PnL
    /\ Len(delta_strategy) = 2
    /\ delta_strategy[1].type = "Short Put Spread"
    /\ Len(status_stats) = 2
    /\ status_stats[1].Total_PnL < status_stats[2].Total_PnL

\* two symbols whose key order is not their order of totals
SymbolOrderReached ==
    /\ pc = "tab6"
    /\ Len(symbol_stats) = 2
    /\ symbol_stats[1].symbol = "SPY"
    /\ symbol_stats[1].Total_PnL > symbol_stats[2].Total_PnL

\* two delta categories listed with the smaller total first
DeltaOrderReached ==
    /\ pc = "tab6"
    /\ Len(delta_perf) = 2
    /\ delta_perf[1].Total_PnL < delta_perf[2].Total_PnL

\* C9: the bias is Bullish exactly when the summed delta is above 50, Bearish
\* exactly when it is below -50, and Neutral otherwise.
BiasRule ==
    Tab5Done =>
        LET total == TotalOver(Col(filtered_df, "estimated_delta"),
                               Positions(filtered_df))
        IN  /\ total_delta = total
            /\ bias = "Bullish" <=> total > 50
            /\ bias = "Bearish" <=> total < -50
            /\ bias = "Neutral" <=> (-50 <= total /\ total <= 50)

\* a subset of two records whose deltas sum to exactly 50
BiasWitness ==
    /\ pc = "tab6"
    /\ Len(filtered_df) = 2
    /\ total_delta = 50
    /\ bias = "Neutral"

\* the boundary on the other side, and the two biased outcomes
BiasOtherCases ==
    /\ pc = "tab6"
    /\ \/ (total_delta = -50 /\ bias = "Neutral")
       \/ (total_delta = 60 /\ bias = "Bullish")
       \/ (total_delta = -60 /\ bias = "Bearish")

\* the exported table read back by load_data
Reloaded == load_data(csv_export)

\* the columns that come back as they were stored; dates to the day
SameStoredValues(back, orig) ==
    /\ back.openDate \div 2 = orig.openDate \div 2
    /\ back.closeDate \div 2 = orig.closeDate \div 2
    /\ back.type = orig.type /\ back.symbol = orig.symbol
    /\ back.status = orig.status /\ back.quantity = orig.quantity
    /\ back.pnl = orig.pnl /\ back.daysInTrade = orig.daysInTrade
    /\ back.estimated_delta = orig.estimated_delta
    /\ back.delta_category = orig.delta_category

\* C10 (as stated): the reloaded export has, for every record of the subset,
\* the same value in every stored column, dates compared by day.
RoundTripExact ==
    Tab6Done =>
        /\ Len(Reloaded) = Len(filtered_df)
        /\ Labels(display_df) = Labels(filtered_df)
        /\ \A i \in Positions(Reloaded) :
              /\ SameStoredValues(Reloaded[i], StoreRow(display_df[i].idx))
              /\ Reloaded[i].returnPct = StoreRow(display_df[i].idx).returnPct

\* the records of the subset that the search keeps
Searched ==
    {filtered_df[i].idx : i \in {k \in Positions(filtered_df) :
        \/ search_term = ""
        \/ \E c \in {"type", "symbol", "status", "delta_category"} :
              StrContains(filtered_df[k][c], search_term)}}

\* C10 (amended): the reloaded export has one row for every record of the
\* subset that the search keeps (all of them when no search term is entered);
\* each row has the stored values of its record in every column except
\* returnPct, dates to the calendar day with the time of day dropped, and its
\* returnPct is the stored returnPct times 100, rounded to two decimals.
RoundTrip ==
    Tab6Done =>
        /\ Len(Reloaded) = Len(display_df)
        /\ Len(Reloaded) = Cardinality(Searched)
        /\ Labels(display_df) = Searched
        /\ \A i \in Positions(Reloaded) :
              LET orig == StoreRow(display_df[i].idx) IN
              /\ SameStoredValues(Reloaded[i], orig)
              /\ Reloaded[i].openDate % 2 = 0 /\ Reloaded[i].closeDate % 2 = 0
              /\ Reloaded[i].returnPct % 1000 = 0
              /\ 2 * Abs(Reloaded[i].returnPct - 100 * orig.returnPct) <= 1000
              /\ Reloaded[i].winning_trade = orig.winning_trade

\* an export without search of two records, one with a return that is not a
\* whole hundredth of a percent and a close date with a time of day
RoundTripWitness ==
    /\ pc = "done"
    /\ search_term = ""
    /\ Len(csv_export) = 2
    /\ \E i \in Positions(display_df) :
          /\ StoreRow(display_df[i].idx).returnPct = 12346
          /\ StoreRow(display_df[i].idx).closeDate % 2 = 1
          /\ Reloaded[i].returnPct = 1235000

\* an export narrowed by the search box
SearchedExportReached ==
    /\ pc = "done"
    /\ search_term # ""
    /\ Len(filtered_df) = 2 /\ Len(csv_export) = 1

\* C11: no section of the script changes the store: after load its records,
\* their field values and their order stay as they were, whatever is
\* filtered, summarised, grouped, ranked, sorted, formatted or exported.
StoreNeverChanges == [][df' = df]_vars

\* a finished run over a store whose close dates are out of order: the
\* cumulative series and the trade log both list the second record first,
\* the export has been made, and the store still has its records in place
StoreNeverChangesWitness ==
    /\ pc = "done"
    /\ Len(df) = 2 /\ Len(filtered_df) = 2
    /\ df[1].closeDate > df[2].closeDate
    /\ df_sorted[1].row.idx = 1
    /\ display_df[1].idx = 1
    /\ Len(csv_export) = 2
    /\ \A i \in Positions(df) : df[i].idx = i - 1

\* C12: a date range whose start is later than its end leaves the filtered
\* subset empty, whatever the store and the other three constraints are; the
\* run goes on to its end like any other.
ReversedRangeEmpty ==
    (FilterDone /\ Len(date_range) = 2 /\ date_range[1] > date_range[2]) =>
        /\ filtered_df = <<>>
        /\ MetricsDone => total_trades = 0
        /\ Tab6Done => display_df = <<>> /\ csv_export = <<>>

\* a finished run with a reversed range and no other constraint, over a store
\* whose two records were opened on the two days of the range
ReversedRangeEmptyWitness ==
    /\ pc = "done"
    /\ Len(date_range) = 2 /\ date_range[1] > date_range[2]
    /\ selected_strategy = "All" /\ selected_status = "All" /\ selected_symbol = "All"
    /\ Len(df) = 2
    /\ {DtDate(df[i].openDate) : i \in Positions(df)} = {date_range[1], date_range[2]}
    /\ filtered_df = <<>>

\* a store record satisfies the constraints on the given columns, a constraint
\* being the selected value of the column, or 'All' for none
Matches(r, cols) ==
    /\ "type" \in cols => (selected_strategy = "All" \/ r.type = selected_strategy)
    /\ "status" \in cols => (selected_status = "All" \/ r.status = selected_status)
    /\ "symbol" \in cols => (selected_symbol = "All" \/ r.symbol = selected_symbol)
    /\ "openDate" \in cols =>
          (Len(date_range) # 2 \/ (/\ date_range[1] <= DtDate(r.openDate)
                                   /\ DtDate(r.openDate) <= date_range[2]))
Kept(r) == \E k \in Positions(filtered_df) : filtered_df[k] = r

\* C13: a selectbox left at 'All' excludes no record and a date range without
\* exactly two bounds excludes no record: a record is kept as soon as it meets
\* the other constraints.  With all four constraints absent the filtered
\* subset is the whole store.
AbsentConstraint ==
    FilterDone =>
        /\ selected_strategy = "All" =>
              \A i \in Positions(df) :
                 Matches(df[i], {"status", "symbol", "openDate"}) => Kept(df[i])
        /\ selected_status = "All" =>
              \A i \in Positions(df) :
                 Matches(df[i], {"type", "symbol", "openDate"}) => Kept(df[i])
        /\ selected_symbol = "All" =>
              \A i \in Positions(df) :
                 Matches(df[i], {"type", "status", "openDate"}) => Kept(df[i])
        /\ Len(date_range) # 2 =>
              \A i \in Positions(df) :
                 Matches(df[i], {"type", "status", "symbol"}) => Kept(df[i])
        /\ (/\ selected_strategy = "All" /\ selected_status = "All"
            /\ selected_symbol = "All" /\ Len(date_range) # 2) => filtered_df = df

\* a date input holding one day only, later than the open date of a record,
\* and no other constraint: the subset is the whole store
AbsentConstraintWitness ==
    /\ pc = "metrics"
    /\ Len(date_range) = 1
    /\ selected_strategy = "All" /\ selected_status = "All" /\ selected_symbol = "All"
    /\ Len(df) = 2
    /\ \E i \in Positions(df) : DtDate(df[i].openDate) < date_range[1]
    /\ filtered_df = df

\* one constraint present and the others absent: the subset is narrowed by
\* that constraint alone
OneConstraintReached ==
    /\ pc = "metrics"
    /\ selected_status # "All" /\ selected_strategy = "All" /\ selected_symbol = "All"
    /\ date_range = <<>>
    /\ Len(df) = 2 /\ Len(filtered_df) = 1

\* the positions of the subset whose record made a profit
WinningPositions == {i \in Positions(filtered_df) : filtered_df[i].pnl > 0}

\* C14: on a non-empty subset winRate is the number of records with pnl > 0
\* divided by the size of the subset, times 100; it lies between 0 and 100,
\* is 100 exactly when every record has pnl > 0 and 0 exactly when none has.
WinRateRule ==
    (MetricsDone /\ Len(filtered_df) > 0) =>
        /\ win_rate.kind = "num" /\ win_rate.den > 0
        /\ win_rate.num * Len(filtered_df)
              = Cardinality(WinningPositions) * 100 * win_rate.den
        /\ 0 <= win_rate.num /\ win_rate.num <= 100 * win_rate.den
        /\ win_rate.num = 100 * win_rate.den
              <=> WinningPositions = Positions(filtered_df)
        /\ win_rate.num = 0 <=> WinningPositions = {}

\* a subset of a winner, a loser and a trade that broke even: one third wins
WinRateRuleWitness ==
    /\ pc = "tab1"
    /\ Len(filtered_df) = 3
    /\ {filtered_df[i].pnl : i \in Positions(filtered_df)} = {-5000, 0, 10000}
    /\ 3 * win_rate.num = 100 * win_rate.den

\* the two ends of the scale: winners only, and break-even trades only
WinRateEndsReached ==
    /\ pc = "tab1"
    /\ Len(filtered_df) = 2
    /\ \/ /\ \A i \in Positions(filtered_df) : filtered_df[i].pnl = 0
          /\ win_rate.num = 0
       \/ /\ \A i \in Positions(filtered_df) : filtered_df[i].pnl > 0
          /\ win_rate.num = 100 * win_rate.den

\* the records of the subset a ranked table leaves out
LeftOut(table) == {i \in Positions(filtered_df) : filtered_df[i].idx \notin Labels(table)}
\* no record left out of a ranked table has the pnl of the table's last row
NoBoundaryTie(table) ==
    \A i \in LeftOut(table) : filtered_df[i].pnl # table[Len(table)].pnl

\* C15: when the subset has at least 2n records (n the size of the two
\* selections, 10 in the dashboard) and neither selection is cut through a
\* group of equal pnl, every one of the n best trades has a pnl at least as
\* large as every one of the n worst, and no record is in both selections.
RankingComplement ==
    (/\ Tab4Done
     /\ Len(filtered_df) >= 2 * TopN
     /\ NoBoundaryTie(best_trades) /\ NoBoundaryTie(worst_trades)) =>
        /\ Len(best_trades) = TopN /\ Len(worst_trades) = TopN
        /\ \A b \in Positions(best_trades), w \in Positions(worst_trades) :
              best_trades[b].pnl >= worst_trades[w].pnl
        /\ Labels(best_trades) \cap Labels(worst_trades) = {}

\* 2n records without a tie at either cut, with a break-even trade among the
\* best and equal pnl inside both selections
RankingComplementWitness ==
    /\ pc = "tab5"
    /\ Len(filtered_df) = 2 * TopN
    /\ NoBoundaryTie(best_trades) /\ NoBoundaryTie(worst_trades)
    /\ best_trades[TopN].pnl = 0
    /\ best_trades[1].pnl = best_trades[2].pnl
    /\ Labels(best_trades) \cap Labels(worst_trades) = {}

\* more than 2n records: the records in the middle are in neither selection
RankingMiddleReached ==
    /\ pc = "tab5"
    /\ Len(filtered_df) = 2 * TopN + 1
    /\ NoBoundaryTie(best_trades) /\ NoBoundaryTie(worst_trades)
    /\ LeftOut(best_trades) \cap LeftOut(worst_trades) # {}

\* with a tie at both cuts the two selections do share records
RankingTieReached ==
    /\ pc = "tab5"
    /\ Len(filtered_df) = 2 * TopN
    /\ ~NoBoundaryTie(best_trades) /\ ~NoBoundaryTie(worst_trades)
    /\ Labels(best_trades) \cap Labels(worst_trades) # {}

\* C16: totalPnl is the sum of pnl over the records of the filtered subset,
\* that is over the store records that satisfy the constraints and no
\* others; on the empty subset it is 0.
TotalPnlIsSum ==
    MetricsDone =>
        /\ total_pnl = TotalOver(Col(filtered_df, "pnl"), Positions(filtered_df))
        /\ total_pnl = TotalOver(Col(df, "pnl"),
                                 {i \in Positions(df) : Satisfies(df[i])})
        /\ filtered_df = <<>> => total_pnl = 0

\* a filter that keeps a loss and drops a gain: the total is the loss
TotalPnlIsSumWitness ==
    /\ pc = "tab1"
    /\ Len(df) = 2 /\ Len(filtered_df) = 1
    /\ filtered_df[1].pnl < 0
    /\ \E i \in Positions(df) : df[i].pnl > 0
    /\ total_pnl = filtered_df[1].pnl

\* a total of several records of both signs
MixedTotalReached ==
    /\ pc = "tab1"
    /\ Len(filtered_df) = 4
    /\ {filtered_df[i].pnl : i \in Positions(filtered_df)} = {-5000, 0, 10000}
    /\ total_pnl = 0

\* C17 (as stated): on a subset with no record the P&L per trade, the average
\* delta per trade and the percentage of Neutral-delta trades are each a
\* "no data" value, and the run divides by zero nowhere.
EmptyAveragesNoDivision ==
    (Tab5Done /\ Len(filtered_df) = 0) =>
        /\ pnl_per_trade.kind = "n/a"
        /\ avg_delta.kind = "nan"
        /\ neutral_pct.kind = "nan"
        /\ runtime_warnings = {}

\* the delta tab rendered over an empty subset: the three values are "no
\* data" values and the Neutral percentage was obtained by dividing 0 by 0
EmptyAveragesDivided ==
    /\ pc = "tab6"
    /\ Len(filtered_df) = 0
    /\ pnl_per_trade = NotAvailable /\ avg_delta = NaN /\ neutral_pct = NaN
    /\ InvalidDivide \in runtime_warnings

\* the Trades and the Total_PnL columns of a grouped table add up to the
\* headline figures of the subset
AddsUp(table) ==
    /\ TotalOver(Col(table, "Trades"), Positions(table)) = total_trades
    /\ TotalOver(Col(table, "Total_PnL"), Positions(table)) = total_pnl

\* C18: in each grouped table (by strategy, by status, by strategy and
\* status, by symbol, by delta category, and the delta table by strategy)
\* the groups' trade counts add up to totalTrades and the groups' total P&L
\* values add up to totalPnl.
GroupTotals ==
    Tab5Done =>
        /\ AddsUp(strategy_stats)
        /\ AddsUp(status_stats)
        /\ AddsUp(status_strategy)
        /\ AddsUp(symbol_stats)
        /\ AddsUp(delta_perf)
        /\ AddsUp(delta_strategy)

\* two records of one status and two strategies, a gain and a loss of the
\* same size: two groups by strategy, one by status, and a total of 0
GroupTotalsWitness ==
    /\ pc = "tab6"
    /\ total_trades = 2 /\ total_pnl = 0
    /\ Len(status_strategy) = 2 /\ Len(strategy_stats) = 2 /\ Len(status_stats) = 1
    /\ status_strategy[1].Total_PnL # 0

\* a group of more than one record: one symbol holding a subset of four
LargeGroupReached ==
    /\ pc = "tab6"
    /\ total_trades = 4
    /\ Len(symbol_stats) = 1 /\ symbol_stats[1].Trades = 4
    /\ symbol_stats[1].Total_PnL = total_pnl /\ total_pnl = 15000

\* two delta categories with different totals
DeltaTotalsReached ==
    /\ pc = "tab6"
    /\ Len(delta_perf) = 2
    /\ delta_perf[1].Total_PnL < 0 /\ delta_perf[2].Total_PnL > 0
    /\ total_pnl = 5000

\* the positions of the subset whose record broke even
BreakEvenPositions == {i \in Positions(filtered_df) : filtered_df[i].pnl = 0}

\* C19: totalPnl is grossProfit minus grossLoss; the win count (pnl > 0) and
\* the loss count (pnl <= 0) of the win/loss breakdown add up to
\* totalTrades; a record with pnl = 0 is one of the counted losses, and
\* grossProfit and grossLoss are the sums over pnl > 0 and pnl < 0 alone.
ProfitLossBalance ==
    Tab1Done =>
        /\ total_pnl = gross_profit - gross_loss
        /\ win_loss.Wins.Count + win_loss.Losses.Count = total_trades
        /\ win_loss.Wins.Count = Cardinality(WinningPositions)
        /\ win_loss.Losses.Count
              = Cardinality(Positions(filtered_df) \ WinningPositions)
        /\ BreakEvenPositions \subseteq Positions(filtered_df) \ WinningPositions
        /\ gross_profit = ProfitOf(filtered_df, Positions(filtered_df) \ BreakEvenPositions)
        /\ gross_loss = LossOf(filtered_df, Positions(filtered_df) \ BreakEvenPositions)
        /\ gross_profit = win_loss.Wins.Total_PnL
        /\ gross_loss = -win_loss.Losses.Total_PnL

\* a winner, a loser and a break-even trade: two counted losses, and a gross
\* loss that is the loser's alone
ProfitLossBalanceWitness ==
    /\ pc = "tab2"
    /\ Len(filtered_df) = 3
    /\ Cardinality(BreakEvenPositions) = 1
    /\ win_loss.Wins.Count = 1 /\ win_loss.Losses.Count = 2
    /\ gross_profit = 10000 /\ gross_loss = 5000 /\ total_pnl = 5000
====
